---- MODULE Spec2Model ----
(***************************************************************************)
(* Model of the two validators of the repository:                          *)
(*   scripts/validate_metadata.py     (documentation validator)            *)
(*   scripts/validate_style_guide.py  (style-guide validator)              *)
(*                                                                         *)
(* Python strings are sequences of one-character strings, so that          *)
(* startswith, endswith, "in", strip and splitlines are computed and not   *)
(* assumed.  A file system below a target root (docs/ or packages/) is a   *)
(* sequence of entries in directory order; an entry is a record            *)
(*   [path, kind, read, content]                                           *)
(* with path the sequence of its segments relative to the target root,     *)
(* kind "file" or "dir", read the outcome of read_text ("ok", "ioerror",   *)
(* "undecodable") and content the decoded text.                            *)
(***************************************************************************)
EXTENDS Integers, Sequences, FiniteSets, TLC

VARIABLES
    validator,   \* which entry point runs: "doc", "style", or a function under test
    pc,          \* position in the running entry point
    root,        \* the target root: "absent", "dir" or "file" (a non-directory entry)
    fs,          \* the entries below the target root, in directory order
    files,       \* the enumerated files still to be looped over (md_file / ts_files)
    idx,         \* position of the loop in files
    errors,      \* the local `errors` of the last per-file or per-function call
    all_errors,  \* the accumulated error list of main
    checked,     \* history: the paths handed to the per-file check, in order
    exit         \* the value main returned, "none" before it returns

vars == <<validator, pc, root, fs, files, idx, errors, all_errors, checked, exit>>

(***************************************************************************)
(* Bounds of the model.                                                    *)
(***************************************************************************)
MaxContentLen == 4   \* longest markdown content enumerated character by character
MaxLines == 22       \* most lines of an enumerated TypeScript file
NumPkgs == 2         \* visible package directories of an enumerated packages root
MaxEntries == 6      \* most entries of an enumerated docs/ or packages/ tree

(***************************************************************************)
(* Python str operations.                                                  *)
(***************************************************************************)
Whitespace == {" ", "\t", "\n", "\r"}

LineBreaks == {"\n", "\r"}

startswith(s, p) ==
    /\ Len(p) <= Len(s)
    /\ SubSeq(s, 1, Len(p)) = p

endswith(s, p) ==
    /\ Len(p) <= Len(s)
    /\ SubSeq(s, Len(s) - Len(p) + 1, Len(s)) = p

\* Python's `p in s` for strings.
contains(s, p) ==
    \E i \in 0..(Len(s) - Len(p)) : SubSeq(s, i + 1, i + Len(p)) = p

RECURSIVE lstrip(_)
lstrip(s) ==
    IF s # <<>> /\ Head(s) \in Whitespace THEN lstrip(Tail(s)) ELSE s

RECURSIVE rstrip(_)
rstrip(s) ==
    IF s # <<>> /\ s[Len(s)] \in Whitespace
    THEN rstrip(SubSeq(s, 1, Len(s) - 1))
    ELSE s

strip(s) == rstrip(lstrip(s))

\* str.splitlines: breaks at \n, \r and \r\n, the breaks are dropped, and a
\* trailing break opens no further line.  `cur` holds the line being read,
\* <<>> when no line has begun and <<line>> otherwise.
RECURSIVE splitfrom(_, _, _, _)
splitfrom(s, i, cur, acc) ==
    IF i > Len(s) THEN (IF cur = <<>> THEN acc ELSE Append(acc, cur[1]))
    ELSE IF s[i] \in LineBreaks
         THEN LET line == IF cur = <<>> THEN <<>> ELSE cur[1]
                  skip == IF s[i] = "\r" /\ i < Len(s) /\ s[i + 1] = "\n" THEN 2 ELSE 1
              IN  splitfrom(s, i + skip, <<>>, Append(acc, line))
         ELSE LET line == IF cur = <<>> THEN <<>> ELSE cur[1]
              IN  splitfrom(s, i + 1, <<Append(line, s[i])>>, acc)

splitlines(s) == splitfrom(s, 1, <<>>, <<>>)

RECURSIVE join(_, _)
join(sep, parts) ==
    IF parts = <<>> THEN <<>>
    ELSE IF Len(parts) = 1 THEN parts[1]
    ELSE parts[1] \o sep \o join(sep, Tail(parts))

(***************************************************************************)
(* pathlib operations on an entry's path.                                  *)
(***************************************************************************)
name(path) == path[Len(path)]

\* PurePath.suffix: from the last dot of the name, unless that dot is the
\* first or the last character of the name.
suffix(path) ==
    LET n == name(path)
        dots == {i \in 1..Len(n) : n[i] = "."}
    IN  IF dots = {} THEN <<>>
        ELSE LET j == CHOOSE i \in dots : \A k \in dots : k <= i
             IN  IF 1 < j /\ j < Len(n) THEN SubSeq(n, j, Len(n)) ELSE <<>>

\* read_text raises OSError on a directory or an unreadable file and
\* UnicodeDecodeError on bytes that are not UTF-8.
ReadRaises(f) == f.kind = "dir" \/ f.read # "ok"

ReadError(f) ==
    [subject |-> f.path,
     msg |-> IF f.kind = "dir" THEN "Error reading file - IsADirectoryError"
             ELSE IF f.read = "undecodable" THEN "Error reading file - UnicodeDecodeError"
             ELSE "Error reading file - OSError"]

(***************************************************************************)
(* validate_metadata.py: validate_markdown_file                            *)
(***************************************************************************)
H1 == <<"#", " ">>

\* A slip that takes the first line instead of the first line with content.
first_line(lines) == IF lines = <<>> THEN <<>> ELSE <<lines[1]>>

\* next((line for line in lines if line.strip()), None): zero or one line.
first_non_empty(lines) ==
    LET hits == {i \in 1..Len(lines) : strip(lines[i]) # <<>>}
    IN  IF hits = {} THEN <<>>
        ELSE <<lines[CHOOSE i \in hits : \A k \in hits : i <= k]>>

MissingH1(f) == [subject |-> f.path, msg |-> "Missing h1 title at start of file"]

validate_markdown_file(f) ==
    IF ReadRaises(f) THEN <<ReadError(f)>>
    ELSE LET lines == splitlines(f.content)
         IN  IF lines = <<>> THEN <<>>
             ELSE LET first == first_non_empty(lines)
                  IN  IF first # <<>> /\ first[1] # <<>> /\ ~startswith(first[1], H1)
                      THEN <<MissingH1(f)>>
                      ELSE <<>>

(***************************************************************************)
(* validate_style_guide.py: validate_typescript_file                       *)
(***************************************************************************)
MinLines == 10      \* "Only enforce for non-trivial files (> 10 lines)"
HeaderLines == 20   \* lines[:20]

ModuleTag == <<"@", "m", "o", "d", "u", "l", "e">>

ModuleTagColon == ModuleTag \o <<":">>

DotTs == <<".", "t", "s">>

DotTsx == <<".", "t", "s", "x">>

DotDTs == <<".", "d", ".", "t", "s">>

SkipPatterns ==
    { <<".", "t", "e", "s", "t", ".">>,
      <<".", "s", "p", "e", "c", ".">>,
      <<".", "c", "o", "n", "f", "i", "g", ".">>,
      <<"v", "i", "t", "e", "s", "t", ".", "c", "o", "n", "f", "i", "g">> }

\* A slip that compares the whole name with the patterns.
is_skipped_exact(path) == name(path) \in SkipPatterns

\* any(pattern in file_path.name for pattern in [...])
is_skipped_name(path) == \E p \in SkipPatterns : contains(name(path), p)

\* A slip that scans every line instead of lines[:20].
has_module_tag_anywhere(lines) ==
    \E i \in 1..Len(lines) :
        contains(lines[i], ModuleTag) \/ contains(lines[i], ModuleTagColon)

\* the loop over enumerate(lines[:20])
has_module_tag(lines) ==
    \E i \in 1..Len(lines) :
        /\ i <= HeaderLines
        /\ (contains(lines[i], ModuleTag) \/ contains(lines[i], ModuleTagColon))

\* file_path.suffix == ".ts" and not file_path.name.endswith(".d.ts")
is_enforced_source(path) == suffix(path) = DotTs /\ ~endswith(name(path), DotDTs)

MissingModule(f) ==
    [subject |-> f.path,
     msg |-> "Missing @module metadata tag. Add a comment like: // @module: package-name"]

validate_typescript_file(f) ==
    IF ReadRaises(f) THEN <<ReadError(f)>>
    ELSE LET lines == splitlines(f.content)
         IN  IF lines = <<>> \/ strip(f.content) = <<>> THEN <<>>
             ELSE IF is_skipped_name(f.path) THEN <<>>
             ELSE IF /\ is_enforced_source(f.path)
                     /\ Len(lines) > MinLines
                     /\ ~has_module_tag(lines)
                  THEN <<MissingModule(f)>>
                  ELSE <<>>

(***************************************************************************)
(* validate_style_guide.py: validate_package_structure                     *)
(***************************************************************************)
PackageJson == <<"p", "a", "c", "k", "a", "g", "e", ".", "j", "s", "o", "n">>

TsconfigJson == <<"t", "s", "c", "o", "n", "f", "i", "g", ".", "j", "s", "o", "n">>

Src == <<"s", "r", "c">>

required_files == <<PackageJson, TsconfigJson>>

\* Path.exists and Path.is_dir below the target root.
exists(tree, path) == \E i \in 1..Len(tree) : tree[i].path = path

is_dir(tree, path) == \E i \in 1..Len(tree) : tree[i].path = path /\ tree[i].kind = "dir"

\* packages_dir.iterdir(): the immediate entries, in directory order.
iterdir(tree) == SelectSeq(tree, LAMBDA e : Len(e.path) = 1)

is_hidden(path) == startswith(name(path), <<".">>)

MissingFile(pkg, required_file) ==
    [subject |-> pkg,
     msg |-> IF required_file = PackageJson
             THEN "Missing required file: package.json"
             ELSE "Missing required file: tsconfig.json"]

MissingSrc(pkg) == [subject |-> pkg, msg |-> "Missing src/ directory"]

\* A slip that reports only the first missing item of a package.
package_errors_first(tree, package_dir) ==
    IF ~is_dir(tree, package_dir) \/ is_hidden(package_dir) THEN <<>>
    ELSE IF ~exists(tree, package_dir \o <<PackageJson>>)
         THEN <<MissingFile(package_dir, PackageJson)>>
    ELSE IF ~exists(tree, package_dir \o <<TsconfigJson>>)
         THEN <<MissingFile(package_dir, TsconfigJson)>>
    ELSE IF ~exists(tree, package_dir \o <<Src>>)
         THEN <<MissingSrc(package_dir)>>
    ELSE <<>>

\* the body of the loop over packages_dir.iterdir() for one entry
package_errors(tree, package_dir) ==
    IF ~is_dir(tree, package_dir) \/ is_hidden(package_dir) THEN <<>>
    ELSE LET missing == SelectSeq(required_files,
                            LAMBDA r : ~exists(tree, package_dir \o <<r>>))
         IN  [i \in 1..Len(missing) |-> MissingFile(package_dir, missing[i])]
             \o (IF ~exists(tree, package_dir \o <<Src>>)
                 THEN <<MissingSrc(package_dir)>>
                 ELSE <<>>)

RECURSIVE structure_loop(_, _)
structure_loop(tree, dirs) ==
    IF dirs = <<>> THEN <<>>
    ELSE package_errors(tree, Head(dirs).path) \o structure_loop(tree, Tail(dirs))

\* iterdir raises NotADirectoryError when packages exists and is no directory;
\* the function has no handler for it.
structure_raises(r) == r = "file"

validate_package_structure(r, tree) ==
    IF r = "absent" THEN <<>> ELSE structure_loop(tree, iterdir(tree))

(***************************************************************************)
(* Entries of a modelled file system.                                      *)
(***************************************************************************)
File(path, content) == [path |-> path, kind |-> "file", read |-> "ok", content |-> content]

Dir(path) == [path |-> path, kind |-> "dir", read |-> "ok", content |-> <<>>]

Unreadable(path, how) == [path |-> path, kind |-> "file", read |-> how, content |-> <<>>]

(***************************************************************************)
(* validate_markdown_file called on one file: every content of at most     *)
(* MaxContentLen characters over MdAlphabet, and the three read failures.  *)
(***************************************************************************)
MdAlphabet == {"#", " ", "a", "\n", "\r"}

MdContents == UNION {[1..n -> MdAlphabet] : n \in 0..MaxContentLen}

AMd == <<"a", ".", "m", "d">>

MdInputs ==
    {File(<<AMd>>, c) : c \in MdContents}
        \cup {Unreadable(<<AMd>>, "ioerror"), Unreadable(<<AMd>>, "undecodable"), Dir(<<AMd>>)}

InitMd ==
    /\ validator = "validate_markdown_file"
    /\ pc = "call"
    /\ root = "dir"
    /\ \E f \in MdInputs : fs = <<f>> /\ files = <<f>>
    /\ idx = 1
    /\ errors = <<>>
    /\ all_errors = <<>>
    /\ checked = <<>>
    /\ exit = "none"

CallMarkdown ==
    /\ validator = "validate_markdown_file"
    /\ pc = "call"
    /\ errors' = validate_markdown_file(files[idx])
    /\ checked' = Append(checked, files[idx].path)
    /\ pc' = "returned"
    /\ UNCHANGED <<validator, root, fs, files, idx, all_errors, exit>>

NextMd == CallMarkdown

SpecMd == InitMd /\ [][NextMd]_vars

(***************************************************************************)
(* validate_typescript_file called on one file.  A content has n lines,    *)
(* 0 <= n <= MaxLines, all equal to one filler line except line m, which   *)
(* carries a tag line (m = 0: no such line).                               *)
(***************************************************************************)
TsNames ==
    { <<"a", ".", "t", "s">>,
      <<"a", ".", "t", "s", "x">>,
      <<"a", ".", "d", ".", "t", "s">>,
      <<"a", ".", "t", "e", "s", "t", ".", "t", "s">>,
      <<"a", ".", "s", "p", "e", "c", ".", "t", "s", "x">>,
      <<"a", ".", "c", "o", "n", "f", "i", "g", ".", "t", "s">>,
      <<"v", "i", "t", "e", "s", "t", ".", "c", "o", "n", "f", "i", "g", "s", ".", "t", "s">>,
      <<"t", "e", "s", "t", ".", "t", "s">>,
      <<".", "t", "s">> }

TsFillers == { <<"x">>, <<" ">> }

TsTagLines ==
    { <<"/", "/", " ", "@", "m", "o", "d", "u", "l", "e", ":", " ", "p">>,
      <<"/", "/", " ", "@", "M", "o", "d", "u", "l", "e">> }

TsContent(n, m, filler, tag) ==
    join(<<"\n">>, [i \in 1..n |-> IF i = m THEN tag ELSE filler])

TsContents ==
    {TsContent(n, m, filler, tag) :
        n \in 0..MaxLines, m \in 0..MaxLines, filler \in TsFillers, tag \in TsTagLines}

TsInputs ==
    {File(<<n>>, c) : n \in TsNames, c \in TsContents}
        \cup {Unreadable(<<n>>, how) : n \in TsNames, how \in {"ioerror", "undecodable"}}
        \cup {Dir(<<n>>) : n \in TsNames}

InitTs ==
    /\ validator = "validate_typescript_file"
    /\ pc = "call"
    /\ root = "dir"
    /\ \E f \in TsInputs : fs = <<f>> /\ files = <<f>>
    /\ idx = 1
    /\ errors = <<>>
    /\ all_errors = <<>>
    /\ checked = <<>>
    /\ exit = "none"

CallTypescript ==
    /\ validator = "validate_typescript_file"
    /\ pc = "call"
    /\ errors' = validate_typescript_file(files[idx])
    /\ checked' = Append(checked, files[idx].path)
    /\ pc' = "returned"
    /\ UNCHANGED <<validator, root, fs, files, idx, all_errors, exit>>

NextTs == CallTypescript

SpecTs == InitTs /\ [][NextTs]_vars

(***************************************************************************)
(* validate_package_structure called on one packages root: NumPkgs names   *)
(* "p", "pp", ... and the hidden name ".h", each absent, a plain file, or  *)
(* a directory holding any choice of package.json, tsconfig.json and src   *)
(* (src a directory or a plain file).                                      *)
(***************************************************************************)
PkgName(k) == [i \in 1..k |-> "p"]

HiddenName == <<".", "h">>

PkgOptions(n) ==
    { <<>>, <<File(<<n>>, <<>>)>> }
        \cup { <<Dir(<<n>>)>> \o pj \o ts \o src :
                 pj \in { <<>>, <<File(<<n, PackageJson>>, <<>>)>> },
                 ts \in { <<>>, <<File(<<n, TsconfigJson>>, <<>>)>> },
                 src \in { <<>>, <<Dir(<<n, Src>>)>>, <<File(<<n, Src>>, <<>>)>> } }

RECURSIVE PkgTrees(_)
PkgTrees(k) ==
    IF k = 0 THEN PkgOptions(HiddenName)
    ELSE {t \o o : t \in PkgTrees(k - 1), o \in PkgOptions(PkgName(k))}

InitPkg ==
    /\ validator = "validate_package_structure"
    /\ pc = "call"
    /\ \/ root = "dir" /\ fs \in PkgTrees(NumPkgs)
       \/ root \in {"absent", "file"} /\ fs = <<>>
    /\ files = <<>>
    /\ idx = 1
    /\ errors = <<>>
    /\ all_errors = <<>>
    /\ checked = <<>>
    /\ exit = "none"

CallStructure ==
    /\ validator = "validate_package_structure"
    /\ pc = "call"
    /\ IF structure_raises(root)
       THEN pc' = "raised" /\ UNCHANGED errors
       ELSE pc' = "returned" /\ errors' = validate_package_structure(root, fs)
    /\ UNCHANGED <<validator, root, fs, files, idx, all_errors, checked, exit>>

NextPkg == CallStructure

SpecPkg == InitPkg /\ [][NextPkg]_vars

(***************************************************************************)
(* The two entry points.  A tree below the target root is any choice of at *)
(* most MaxEntries entries of a universe, closed under parent directories, *)
(* listed in the universe's order or in the reverse order.                 *)
(***************************************************************************)
Pick(U, S) ==
    LET at == SelectSeq([i \in 1..Len(U) |-> i], LAMBDA i : i \in S)
    IN  [j \in 1..Len(at) |-> U[at[j]]]

Closed(U, S) ==
    \A i \in S :
        Len(U[i].path) > 1 =>
            \E j \in S : /\ U[j].kind = "dir"
                         /\ U[j].path = SubSeq(U[i].path, 1, Len(U[i].path) - 1)

Reverse(t) == [i \in 1..Len(t) |-> t[Len(t) + 1 - i]]

Trees(U) ==
    LET listed == {Pick(U, S) : S \in {T \in SUBSET (1..Len(U)) :
                                          Cardinality(T) <= MaxEntries /\ Closed(U, T)}}
    IN  listed \cup {Reverse(t) : t \in listed}

BMd == <<"b", ".", "m", "d">>

TitleBody == <<"#", " ", "T", "i", "t", "l", "e", "\n", "B", "o", "d", "y">>

BodyOnly == <<"B", "o", "d", "y", " ", "o", "n", "l", "y">>

DocsUniverse ==
    << File(<<AMd>>, TitleBody),
       File(<<BMd>>, BodyOnly),
       Dir(<< <<"s", "u", "b">> >>),
       Unreadable(<< <<"s", "u", "b">>, <<"c", ".", "m", "d">> >>, "undecodable"),
       File(<< <<".", "h", ".", "m", "d">> >>, BodyOnly),
       Unreadable(<< <<".", "_", "r", ".", "m", "d">> >>, "undecodable"),
       Dir(<< <<"d", ".", "m", "d">> >>),
       File(<< <<"n", ".", "t", "x", "t">> >>, BodyOnly),
       File(<< <<"e", ".", "m", "d">> >>, <<>>) >>

App == <<"a", "p", "p">>

NodeModules == <<"n", "o", "d", "e", "_", "m", "o", "d", "u", "l", "e", "s">>

Dist == <<"d", "i", "s", "t">>

Untagged == TsContent(11, 0, <<"x">>, <<>>)

Tagged ==
    TsContent(11, 1, <<"x">>,
              <<"/", "/", " ", "@", "m", "o", "d", "u", "l", "e", ":", " ", "p">>)

PackagesUniverse ==
    << Dir(<<App>>),
       File(<<App, PackageJson>>, <<>>),
       File(<<App, TsconfigJson>>, <<>>),
       Dir(<<App, Src>>),
       File(<<App, Src, <<"a", ".", "t", "s">> >>, Untagged),
       File(<<App, Src, <<"b", ".", "t", "s">> >>, Tagged),
       File(<<App, Src, <<"c", ".", "t", "s", "x">> >>, Untagged),
       Unreadable(<<App, Src, <<"u", ".", "t", "s">> >>, "ioerror"),
       File(<<App, Src, <<"d", "i", "s", "t", "a", "n", "c", "e", ".", "t", "s">> >>, Untagged),
       Dir(<<App, Dist>>),
       File(<<App, Dist, <<"o", ".", "t", "s">> >>, Untagged),
       Dir(<<App, NodeModules>>),
       File(<<App, NodeModules, <<"m", ".", "t", "s">> >>, Untagged),
       File(<<App, Src, <<".", "h", ".", "t", "s">> >>, Untagged),
       Unreadable(<<App, Src, <<".", "_", "r", ".", "t", "s">> >>, "undecodable"),
       Dir(<<App, Src, <<"k", ".", "t", "s">> >>),
       Dir(<< <<"l", "i", "b">> >>),
       Dir(<< <<".", "c", "f", "g">> >>),
       File(<< <<"n", "o", "t", "e", "s">> >>, <<>>) >>

Init ==
    /\ validator \in {"doc", "style"}
    /\ pc = "start"
    /\ \/ root = "dir" /\ fs \in Trees(IF validator = "doc" THEN DocsUniverse
                                       ELSE PackagesUniverse)
       \/ root \in {"absent", "file"} /\ fs = <<>>
    /\ files = <<>>
    /\ idx = 1
    /\ errors = <<>>
    /\ all_errors = <<>>
    /\ checked = <<>>
    /\ exit = "none"

\* Path.exists on the target root.
root_exists(r) == r # "absent"

\* Path.rglob("*" + ext): every entry, of any kind and at any depth, whose
\* name ends with ext; hidden names are matched like the others.
rglob(tree, ext) == SelectSeq(tree, LAMBDA e : endswith(name(e.path), ext))

\* A slip that replaces the list instead of extending it.
extend_overwrite(list, more) == more

\* list.extend
extend(list, more) == list \o more

\* A slip that returns the number of errors.
exit_status_count(list) == Len(list)

\* "if all_errors: ... return 1" and the final "return 0"
exit_status(list) == IF list # <<>> THEN 1 ELSE 0

DotMd == <<".", "m", "d">>

\* md_file.name.startswith(".") or md_file.name.startswith("._")
doc_skips(path) ==
    startswith(name(path), <<".">>) \/ startswith(name(path), <<".", "_">>)

DocStart ==
    /\ validator = "doc"
    /\ pc = "start"
    /\ IF ~root_exists(root)
       THEN /\ pc' = "done"
            /\ exit' = 0
            /\ UNCHANGED <<files, all_errors>>
       ELSE /\ pc' = "loop"
            /\ all_errors' = <<>>
            /\ files' = rglob(fs, DotMd)
            /\ UNCHANGED exit
    /\ UNCHANGED <<validator, root, fs, idx, errors, checked>>

DocFile ==
    /\ validator = "doc"
    /\ pc = "loop"
    /\ idx <= Len(files)
    /\ LET md_file == files[idx]
       IN  IF doc_skips(md_file.path)
           THEN UNCHANGED <<errors, all_errors, checked>>
           ELSE /\ errors' = validate_markdown_file(md_file)
                /\ all_errors' = extend(all_errors, errors')
                /\ checked' = Append(checked, md_file.path)
    /\ idx' = idx + 1
    /\ UNCHANGED <<validator, pc, root, fs, files, exit>>

DocFinish ==
    /\ validator = "doc"
    /\ pc = "loop"
    /\ idx > Len(files)
    /\ exit' = exit_status(all_errors)
    /\ pc' = "done"
    /\ UNCHANGED <<validator, root, fs, files, idx, errors, all_errors, checked>>

\* str(f) of an entry below packages/, the repository being at /r.
str(path) ==
    <<"/", "r", "/", "p", "a", "c", "k", "a", "g", "e", "s", "/">> \o join(<<"/">>, path)

\* "node_modules" not in str(f) and "dist" not in str(f), negated
style_excluded(path) == contains(str(path), NodeModules) \/ contains(str(path), Dist)

\* list(rglob("*.ts")) + list(rglob("*.tsx")), then the exclusion filter
ts_files(tree) ==
    SelectSeq(rglob(tree, DotTs) \o rglob(tree, DotTsx),
              LAMBDA e : ~style_excluded(e.path))

StyleStructure ==
    /\ validator = "style"
    /\ pc = "start"
    /\ IF structure_raises(root)
       THEN pc' = "raised" /\ UNCHANGED all_errors
       ELSE /\ pc' = "enumerate"
            /\ all_errors' = extend(<<>>, validate_package_structure(root, fs))
    /\ UNCHANGED <<validator, root, fs, files, idx, errors, checked, exit>>

StyleEnumerate ==
    /\ validator = "style"
    /\ pc = "enumerate"
    /\ files' = IF root_exists(root) THEN ts_files(fs) ELSE <<>>
    /\ pc' = "loop"
    /\ UNCHANGED <<validator, root, fs, idx, errors, all_errors, checked, exit>>

StyleFile ==
    /\ validator = "style"
    /\ pc = "loop"
    /\ idx <= Len(files)
    /\ LET ts_file == files[idx]
       IN  /\ errors' = validate_typescript_file(ts_file)
           /\ all_errors' = extend(all_errors, errors')
           /\ checked' = Append(checked, ts_file.path)
    /\ idx' = idx + 1
    /\ UNCHANGED <<validator, pc, root, fs, files, exit>>

StyleFinish ==
    /\ validator = "style"
    /\ pc = "loop"
    /\ idx > Len(files)
    /\ exit' = exit_status(all_errors)
    /\ pc' = "done"
    /\ UNCHANGED <<validator, root, fs, files, idx, errors, all_errors, checked>>

Next ==
    \/ DocStart
    \/ DocFile
    \/ DocFinish
    \/ StyleStructure
    \/ StyleEnumerate
    \/ StyleFile
    \/ StyleFinish

Spec == Init /\ [][Next]_vars

(***************************************************************************)
(* Claims about validate_markdown_file (SpecMd).                           *)
(***************************************************************************)
NonBlank(line) == \E i \in 1..Len(line) : line[i] \notin Whitespace

\* The lines of the file under test that have non-whitespace content.
ContentLines(f) == SelectSeq(splitlines(f.content), NonBlank)

MdReturned ==
    /\ validator = "validate_markdown_file"
    /\ pc = "returned"
    /\ ~ReadRaises(files[1])

\* C2 as stated: a readable file with non-empty content yields zero errors
\* if its first non-empty line starts with "# " and otherwise exactly one
\* error naming the file; an empty file yields zero errors.
C2_AsStated ==
    MdReturned =>
        LET f == files[1]
            heads == ContentLines(f)
        IN  IF f.content = <<>> THEN errors = <<>>
            ELSE IF heads # <<>> /\ startswith(heads[1], H1) THEN errors = <<>>
            ELSE Len(errors) = 1 /\ errors[1].subject = f.path

\* C2 amended: a readable file with at least one line of non-whitespace
\* content yields zero errors if the first such line starts with "# " and
\* otherwise exactly one error naming the file; an empty file, and a file
\* whose lines are all blank, yields zero errors.
C2_Heading ==
    MdReturned =>
        LET f == files[1]
            heads == ContentLines(f)
        IN  IF heads = <<>> THEN errors = <<>>
            ELSE IF startswith(heads[1], H1) THEN errors = <<>>
            ELSE errors = <<MissingH1(f)>>

\* A blank line, then a heading: the heading is the first line with content.
C2_Witness ==
    /\ MdReturned
    /\ files[1].content = <<" ", "\n", "#", " ">>
    /\ errors = <<>>

(***************************************************************************)
(* Claims about validate_typescript_file (SpecTs).                         *)
(***************************************************************************)
TsReturned == validator = "validate_typescript_file" /\ pc = "returned"

LineCount(f) == Len(splitlines(f.content))

\* Some line among the first 20 holds the substring "@module".
TagInFirst20(f) ==
    LET lines == splitlines(f.content)
    IN  \E i \in 1..20 : i <= Len(lines) /\ contains(lines[i], ModuleTag)

\* The name holds ".test.", ".spec." or ".config.".
TestSpecConfigNamed(f) ==
    \/ contains(name(f.path), <<".", "t", "e", "s", "t", ".">>)
    \/ contains(name(f.path), <<".", "s", "p", "e", "c", ".">>)
    \/ contains(name(f.path), <<".", "c", "o", "n", "f", "i", "g", ".">>)

\* A name <stem>.<ext> with a stem, that is no .d.ts declaration file and
\* holds none of the four patterns the function skips.
PlainSource(f, ext) ==
    /\ endswith(name(f.path), ext)
    /\ Len(name(f.path)) > Len(ext)
    /\ ~endswith(name(f.path), DotDTs)
    /\ ~TestSpecConfigNamed(f)
    /\ ~contains(name(f.path),
                 <<"v", "i", "t", "e", "s", "t", ".", "c", "o", "n", "f", "i", "g">>)

\* C3: a readable *.ts or *.tsx file that is not test/spec/config-named and
\* no .d.ts file, with more than 10 lines, some content and no "@module" in
\* its first 20 lines, yields exactly the one missing-tag error.
C3_AsStated ==
    TsReturned =>
        LET f == files[1]
        IN  ( /\ ~ReadRaises(f)
              /\ (PlainSource(f, DotTs) \/ PlainSource(f, DotTsx))
              /\ NonBlank(f.content)
              /\ LineCount(f) > 10
              /\ ~TagInFirst20(f) )
            => errors = <<MissingModule(f)>>

\* C4 as stated: a readable .ts file that is not .d.ts and not
\* test/spec/config-named yields one error if and only if it has more than
\* 10 lines and none of its first 20 lines holds "@module".
C4_AsStated ==
    TsReturned =>
        LET f == files[1]
        IN  (~ReadRaises(f) /\ PlainSource(f, DotTs))
            => /\ Len(errors) <= 1
               /\ Len(errors) = 1 <=> (LineCount(f) > 10 /\ ~TagInFirst20(f))

\* C4 amended: a readable file <stem>.ts that is not .d.ts and whose name
\* holds none of ".test.", ".spec.", ".config.", "vitest.config" yields the
\* missing-tag error if and only if it has more than 10 lines, at least one
\* non-whitespace character, and no "@module" in its first 20 lines; it
\* yields nothing else.
C4_Tag ==
    TsReturned =>
        LET f == files[1]
        IN  (~ReadRaises(f) /\ PlainSource(f, DotTs))
            => errors = IF /\ LineCount(f) > 10
                           /\ NonBlank(f.content)
                           /\ ~TagInFirst20(f)
                        THEN <<MissingModule(f)>>
                        ELSE <<>>

\* The tag first occurs on line 21: the error is raised all the same.
C4_Witness ==
    /\ TsReturned
    /\ files[1] = File(<< <<"a", ".", "t", "s">> >>,
                       TsContent(21, 21, <<"x">>,
                           <<"/", "/", " ", "@", "m", "o", "d", "u", "l", "e", ":", " ", "p">>))
    /\ errors = <<MissingModule(files[1])>>

\* C5 as stated: a file whose name holds ".test.", ".spec." or ".config."
\* yields zero errors whatever its content, unreadable content included.
C5_AsStated ==
    (TsReturned /\ TestSpecConfigNamed(files[1]) /\ files[1].kind = "file")
        => errors = <<>>

\* C5 amended: a readable, decodable file whose name holds ".test.",
\* ".spec." or ".config." yields zero errors whatever its content.
C5_Skip ==
    (TsReturned /\ TestSpecConfigNamed(files[1]) /\ ~ReadRaises(files[1]))
        => errors = <<>>

\* A test file of 11 lines without a tag.
C5_Witness ==
    /\ TsReturned
    /\ files[1] = File(<< <<"a", ".", "t", "e", "s", "t", ".", "t", "s">> >>,
                       TsContent(11, 0, <<"x">>, <<>>))
    /\ errors = <<>>

(***************************************************************************)
(* Claims about validate_package_structure (SpecPkg).                      *)
(***************************************************************************)
PkgReturned ==
    /\ validator = "validate_package_structure"
    /\ pc = "returned"
    /\ root = "dir"

\* The immediate subdirectories of the packages root.
Subdirs == {fs[i].path : i \in {j \in 1..Len(fs) : Len(fs[j].path) = 1 /\ fs[j].kind = "dir"}}

VisibleSubdirs == {d \in Subdirs : d[1][1] # "."}

Bare(d) ==
    /\ ~exists(fs, d \o <<PackageJson>>)
    /\ ~exists(fs, d \o <<TsconfigJson>>)
    /\ ~exists(fs, d \o <<Src>>)

Owed ==
    {MissingFile(d, PackageJson) : d \in {v \in VisibleSubdirs : ~exists(fs, v \o <<PackageJson>>)}}
        \cup {MissingFile(d, TsconfigJson) : d \in {v \in VisibleSubdirs : ~exists(fs, v \o <<TsconfigJson>>)}}
        \cup {MissingSrc(d) : d \in {v \in VisibleSubdirs : ~exists(fs, v \o <<Src>>)}}

C1_ExitStatus ==
    pc = "done" =>
        /\ exit \in {0, 1}
        /\ exit = 1 <=> Len(all_errors) >= 1
        /\ root = "absent" => exit = 0 /\ checked = <<>> /\ all_errors = <<>>

\* A run that collected several errors and returned 1.
C1_Witness == pc = "done" /\ exit = 1 /\ Len(all_errors) >= 2

\* The files a run hands to the per-file check, in enumeration order.
Enumerated ==
    IF validator = "doc"
    THEN SelectSeq(rglob(fs, DotMd), LAMBDA e : ~doc_skips(e.path))
    ELSE ts_files(fs)

PerFile(f) ==
    IF validator = "doc" THEN validate_markdown_file(f) ELSE validate_typescript_file(f)

RECURSIVE Collected(_)
Collected(fileseq) ==
    IF fileseq = <<>> THEN <<>>
    ELSE PerFile(Head(fileseq)) \o Collected(Tail(fileseq))

StructureErrors ==
    IF validator = "style" THEN validate_package_structure(root, fs) ELSE <<>>

\* C7: while the loop runs the error list is the package-structure errors
\* followed by the errors of every file handed to the check so far, in
\* order; when main returns it is that of all the enumerated, non-excluded
\* files.  docs/ holding a.md = "# Title\nBody" and b.md = "Body only"
\* ends with the one error for b.md and exit status 1.
C7_Accumulates ==
    /\ (pc \in {"loop", "done"} /\ root # "absent") =>
           /\ Len(checked) <= Len(Enumerated)
           /\ checked = [i \in 1..Len(checked) |-> Enumerated[i].path]
           /\ all_errors = StructureErrors \o Collected(SubSeq(Enumerated, 1, Len(checked)))
    /\ (pc = "done" /\ root # "absent") => Len(checked) = Len(Enumerated)
    /\ ( /\ pc = "done"
         /\ validator = "doc"
         /\ {fs[i] : i \in 1..Len(fs)} = {File(<<AMd>>, TitleBody), File(<<BMd>>, BodyOnly)} )
       => all_errors = <<MissingH1(File(<<BMd>>, BodyOnly))>> /\ exit = 1

\* A read failure came first and a later file still had its error recorded.
C7_Witness ==
    /\ pc = "done"
    /\ Len(checked) >= 2
    /\ Len(all_errors) >= 2
    /\ all_errors[1] = ReadError(Enumerated[1])
    /\ all_errors[Len(all_errors)].subject = checked[Len(checked)]
    /\ all_errors[Len(all_errors)].msg \in {MissingH1(Enumerated[1]).msg,
                                            MissingModule(Enumerated[1]).msg}

\* C8: whatever the file system holds, no exception leaves main and main
\* returns 0 or 1.
C8_AsStated ==
    /\ pc # "raised"
    /\ pc = "done" => exit \in {0, 1}

\* The *.ts and *.tsx files below packages/ that lie in no directory named
\* node_modules or dist.
OutsideExcludedDirs ==
    {fs[i].path : i \in {j \in 1..Len(fs) :
        /\ endswith(name(fs[j].path), DotTs) \/ endswith(name(fs[j].path), DotTsx)
        /\ \A k \in 1..(Len(fs[j].path) - 1) : fs[j].path[k] \notin {NodeModules, Dist}}}

\* C9: the style validator checks exactly the enumerated files that have no
\* directory segment named node_modules or dist.
C9_AsStated ==
    (validator = "style" /\ pc = "done" /\ root = "dir")
        => {checked[i] : i \in 1..Len(checked)} = OutsideExcludedDirs

\* C10: no file whose name starts with "." is handed to the per-file check,
\* in either validator.
C10_AsStated ==
    validator \in {"doc", "style"} =>
        \A i \in 1..Len(checked) : name(checked[i])[1] # "."

====
